---- MODULE Spec2Model ----
(***************************************************************************)
(* Model of cdp_agentkit_core.actions.allora: the action registry          *)
(* (get_all_allora_actions, ALLORA_ACTIONS), the input schema              *)
(* GetPricePredictionInput and the two handlers get_all_topics and         *)
(* get_price_prediction, each run against an AlloraAPIClient whose         *)
(* outcome (a returned value or a raised exception) is an input.           *)
(***************************************************************************)
EXTENDS Integers, Sequences, FiniteSets, TLC

\* ---------------------------------------------------------------- bounds
MaxInvocations == 2
MaxQueries == 1
MaxTopics == 2

\* ------------------------------------------------------ input universes
Tokens == {"BTC", "ETH"}
Timeframes == {"5m", "8h"}

\* ---------------------------------------------- Python exception classes
\* Classes below Exception in the builtin hierarchy (caught by
\* `except Exception`) and classes that derive from BaseException only.
ErrorClasses == {"Exception", "ValueError", "TypeError", "AttributeError"}
BaseOnlyClasses == {"CancelledError", "KeyboardInterrupt"}

isinstance_Exception(exc) == exc.cls \in ErrorClasses

\* str(e) of an exception built from one message argument
str_exc(exc) == exc.msg

NoExc == [cls |-> "-", msg |-> ""]

\* ------------------------------------------------------- action classes
GET_ALL_TOPICS_PROMPT ==
  "\nThis tool will get all available topics from Allora Network.\n"

GET_PRICE_PREDICTION_PROMPT ==
  "\nThis tool will get the future price prediction for a given crypto asset from Allora Network.\nIt takes the crypto asset and timeframe as inputs.\n"

GetAllTopicsAction ==
  [cls |-> "GetAllTopicsAction",
   name |-> "get_all_topics",
   description |-> GET_ALL_TOPICS_PROMPT,
   args_schema |-> "None",
   func |-> "get_all_topics"]

GetPricePredictionAction ==
  [cls |-> "GetPricePredictionAction",
   name |-> "get_price_prediction",
   description |-> GET_PRICE_PREDICTION_PROMPT,
   args_schema |-> "GetPricePredictionInput",
   func |-> "get_price_prediction"]

ActionClasses == {"GetAllTopicsAction", "GetPricePredictionAction"}

\* action(): an instance carrying the class's field defaults
Instantiate(cls) ==
  IF cls = "GetAllTopicsAction" THEN GetAllTopicsAction
  ELSE GetPricePredictionAction

\* AlloraAction.__subclasses__() once the package is imported: the direct
\* subclasses in the order their modules were imported.
ImportedSubclasses == <<"GetAllTopicsAction", "GetPricePredictionAction">>

\* variant: the loop starts after the first subclass
get_all_allora_actions_skip_first(subs, hp) ==
  [actions |-> [i \in 1..(Len(subs) - 1) |-> Len(hp) + i],
   heap |-> hp \o [i \in 1..(Len(subs) - 1) |-> Instantiate(subs[i + 1])]]

\* variant: constructing an instance resets the name of the earlier ones
get_all_allora_actions_renaming(subs, hp) ==
  [actions |-> [i \in 1..Len(subs) |-> Len(hp) + i],
   heap |-> [i \in 1..Len(hp) |-> [hp[i] EXCEPT !.name = "allora"]]
            \o [i \in 1..Len(subs) |-> Instantiate(subs[i])]]

\* get_all_allora_actions(): one new instance per subclass, appended in
\* order.  The heap is the sequence of all instances constructed so far;
\* an instance's identity is its index in the heap.
get_all_allora_actions(subs, hp) ==
  [actions |-> [i \in 1..Len(subs) |-> Len(hp) + i],
   heap |-> hp \o [i \in 1..Len(subs) |-> Instantiate(subs[i])]]

\* ------------------------------------------- GetPricePredictionInput
Fields == {"token", "timeframe"}
InputStrings == {"5m", " btc "}

\* keyword arguments of a construction: any subset of the fields, each
\* bound to a string
KwargsSet == UNION {[D -> InputStrings] : D \in SUBSET Fields}

NoInput == [raised |-> "-", missing |-> {}, token |-> "", timeframe |-> ""]

\* variant: token declared with a default instead of Field(...)
GetPricePredictionInput_token_default(kw) ==
  LET missing == {"timeframe"} \ DOMAIN kw
  IN  IF missing # {}
      THEN [raised |-> "ValidationError", missing |-> missing,
            token |-> "", timeframe |-> ""]
      ELSE [raised |-> "-", missing |-> {},
            token |-> IF "token" \in DOMAIN kw THEN kw["token"] ELSE "",
            timeframe |-> kw["timeframe"]]

\* variant: the two fields stored crosswise
GetPricePredictionInput_crossed(kw) ==
  LET missing == Fields \ DOMAIN kw
  IN  IF missing # {}
      THEN [raised |-> "ValidationError", missing |-> missing,
            token |-> "", timeframe |-> ""]
      ELSE [raised |-> "-", missing |-> {},
            token |-> kw["timeframe"], timeframe |-> kw["token"]]

\* GetPricePredictionInput(**kw): both fields are required (Field(...));
\* a missing field raises pydantic's ValidationError (a ValueError),
\* otherwise the record stores the strings it was given.
GetPricePredictionInput(kw) ==
  LET missing == Fields \ DOMAIN kw
  IN  IF missing # {}
      THEN [raised |-> "ValidationError", missing |-> missing,
            token |-> "", timeframe |-> ""]
      ELSE [raised |-> "-", missing |-> {},
            token |-> kw["token"], timeframe |-> kw["timeframe"]]

\* ------------------------------------------------------- Python values
\* A normalized inference value: a str, or a number formatted by str().
StrVal(s) == [type |-> "str", s |-> s, n |-> 0]
IntVal(n) == [type |-> "int", s |-> "", n |-> n]
NormalizedValues == {StrVal("50000.00"), StrVal("0.5"), IntVal(50000)}

\* format(v, "") as an f-string replacement field applies it
py_format(v) == IF v.type = "str" THEN v.s ELSE ToString(v.n)

\* objects the client may return as a prediction
Inference(v) ==
  [class |-> "AlloraInference",
   inference_data |-> [class |-> "AlloraInferenceData",
                       network_inference_normalized |-> v]]
InferenceNoData ==
  [class |-> "AlloraInference", inference_data |-> [class |-> "NoneType"]]
None == [class |-> "NoneType"]
Predictions ==
  {Inference(v) : v \in NormalizedValues} \cup {InferenceNoData, None}

\* the AttributeError of a failed obj.name
AttributeError(obj, name) ==
  [cls |-> "AttributeError",
   msg |-> "'" \o obj.class \o "' object has no attribute '" \o name \o "'"]

\* ------------------------------------------------------------ json.dumps
\* topics: dicts {"topic_id": int, "topic_name": str}, or SDK objects that
\* the json encoder does not know
Topic(kind, id, nm) == [type |-> kind, topic_id |-> id, topic_name |-> nm]
TopicUniverse ==
  {Topic("dict", 1, "BTC 5min"), Topic("dict", 12, "ETH \"8h\""),
   Topic("AlloraTopic", 1, "BTC 5min")}
TopicLists == UNION {[1..n -> TopicUniverse] : n \in 0..MaxTopics}

RECURSIVE py_encode_basestring_body(_)
py_encode_basestring_body(s) ==
  IF Len(s) = 0 THEN ""
  ELSE LET c == SubSeq(s, 1, 1)
           e == IF c = "\"" THEN "\\\""
                ELSE IF c = "\\" THEN "\\\\"
                ELSE IF c = "\n" THEN "\\n"
                ELSE c
       IN  e \o py_encode_basestring_body(SubSeq(s, 2, Len(s)))

\* JSON string literal of a str
py_encode_basestring(s) == "\"" \o py_encode_basestring_body(s) \o "\""

Indent(level) == IF level = 0 THEN "" ELSE IF level = 1 THEN "    " ELSE "        "

\* a dict at nesting level 1 of an indent=4 dump
json_dumps_dict(t) ==
  "{\n" \o Indent(2) \o "\"topic_id\": " \o ToString(t.topic_id)
  \o ",\n" \o Indent(2) \o "\"topic_name\": "
  \o py_encode_basestring(t.topic_name)
  \o "\n" \o Indent(1) \o "}"

\* variant: only the first element is written
json_dumps_items_first_only(ts) == json_dumps_dict(ts[1])

RECURSIVE json_dumps_items(_)
json_dumps_items(ts) ==
  IF Len(ts) = 1 THEN json_dumps_dict(ts[1])
  ELSE json_dumps_dict(ts[1]) \o ",\n" \o Indent(1)
       \o json_dumps_items(Tail(ts))

\* json.dumps(topics, indent=4): the text, or the TypeError of the first
\* element the encoder cannot serialize
json_dumps(ts) ==
  IF \E i \in 1..Len(ts) : ts[i].type # "dict"
  THEN LET i == CHOOSE k \in 1..Len(ts) :
                  /\ ts[k].type # "dict"
                  /\ \A j \in 1..(k - 1) : ts[j].type = "dict"
       IN [raised |-> TRUE,
           exc |-> [cls |-> "TypeError",
                    msg |-> "Object of type " \o ts[i].type
                            \o " is not JSON serializable"],
           text |-> ""]
  ELSE [raised |-> FALSE, exc |-> NoExc,
        text |-> IF Len(ts) = 0 THEN "[]"
                 ELSE "[\n" \o Indent(1) \o json_dumps_items(ts) \o "\n]"]

\* ------------------------------------------------------------ the client
\* What one call of a client operation does: raise an exception or return.
Exc(cls, msg) == [cls |-> cls, msg |-> msg]
Exceptions ==
  {Exc("Exception", "API error"), Exc("ValueError", "boom"),
   Exc("CancelledError", ""), Exc("KeyboardInterrupt", "")}

PredictionOutcomes ==
  [kind : {"raise"}, exc : Exceptions, prediction : {None}, topics : {<<>>}]
  \cup [kind : {"return"}, exc : {NoExc}, prediction : Predictions,
        topics : {<<>>}]

TopicsOutcomes ==
  [kind : {"raise"}, exc : Exceptions, prediction : {None}, topics : {<<>>}]
  \cup [kind : {"return"}, exc : {NoExc}, prediction : {None},
        topics : TopicLists]

ClientCall(op, token, timeframe) ==
  [op |-> op, token |-> token, timeframe |-> timeframe]

Raise(e) == [raised |-> TRUE, exc |-> e, value |-> ""]
Value(s) == [raised |-> FALSE, exc |-> NoExc, value |-> s]

Returned(s, cs) ==
  [status |-> "returned", value |-> s, exc |-> NoExc, calls |-> cs]
Propagated(e, cs) ==
  [status |-> "raised", value |-> "", exc |-> e, calls |-> cs]

\* ------------------------------------------------- get_price_prediction
\* variant: a failed call is attempted a second time
await_get_price_prediction_retry(client, token, timeframe) ==
  LET c == ClientCall("get_price_prediction", token, timeframe)
  IN  [calls |-> IF client.kind = "raise" THEN <<c, c>> ELSE <<c>>,
       kind |-> client.kind, exc |-> client.exc,
       prediction |-> client.prediction]

\* await client.get_price_prediction(token, timeframe): the calls made
\* on the client and what the await yields
await_get_price_prediction(client, token, timeframe) ==
  [calls |-> <<ClientCall("get_price_prediction", token, timeframe)>>,
   kind |-> client.kind, exc |-> client.exc,
   prediction |-> client.prediction]

\* variant: token and timeframe interpolated crosswise
price_prediction_message_crossed(token, timeframe, v) ==
  "The future price prediction for " \o timeframe \o " in " \o token
  \o " is " \o py_format(v)

\* the success string of the f-string
price_prediction_message(token, timeframe, v) ==
  "The future price prediction for " \o token \o " in " \o timeframe
  \o " is " \o py_format(v)

\* the try suite after the await: the two attribute reads and the f-string
price_prediction_try(aw, token, timeframe) ==
  IF aw.kind = "raise" THEN Raise(aw.exc)
  ELSE LET pp == aw.prediction
       IN  IF "inference_data" \notin DOMAIN pp
           THEN Raise(AttributeError(pp, "inference_data"))
           ELSE IF "network_inference_normalized"
                     \notin DOMAIN pp.inference_data
           THEN Raise(AttributeError(pp.inference_data,
                                     "network_inference_normalized"))
           ELSE Value(price_prediction_message(token, timeframe,
                   pp.inference_data.network_inference_normalized))

\* variant: `except ValueError as e`
price_prediction_catches_ValueError(e) == e.cls = "ValueError"

\* `except Exception as e`
price_prediction_catches(e) == isinstance_Exception(e)

price_prediction_error(e) ==
  "Error getting price prediction: " \o str_exc(e)

get_price_prediction(client, token, timeframe) ==
  LET aw == await_get_price_prediction(client, token, timeframe)
      t == price_prediction_try(aw, token, timeframe)
  IN  IF ~t.raised THEN Returned(t.value, aw.calls)
      ELSE IF price_prediction_catches(t.exc)
      THEN Returned(price_prediction_error(t.exc), aw.calls)
      ELSE Propagated(t.exc, aw.calls)

\* -------------------------------------------------------- get_all_topics
await_get_all_topics(client) ==
  [calls |-> <<ClientCall("get_all_topics", "", "")>>,
   kind |-> client.kind, exc |-> client.exc, topics |-> client.topics]

all_topics_message(topics_json) ==
  "The available topics at Allora Network are:\n" \o topics_json

all_topics_try(aw) ==
  IF aw.kind = "raise" THEN Raise(aw.exc)
  ELSE LET d == json_dumps(aw.topics)
       IN  IF d.raised THEN Raise(d.exc)
           ELSE Value(all_topics_message(d.text))

\* variant: only the errors the client raises are caught
all_topics_catches_client_errors(e) == e.cls \in {"Exception", "ValueError"}

\* `except Exception as e`
all_topics_catches(e) == isinstance_Exception(e)

\* variant: the label of the other handler
all_topics_error_other_label(e) ==
  "Error getting price prediction: " \o str_exc(e)

all_topics_error(e) == "Error getting all topics: " \o str_exc(e)

get_all_topics(client) ==
  LET aw == await_get_all_topics(client)
      t == all_topics_try(aw)
  IN  IF ~t.raised THEN Returned(t.value, aw.calls)
      ELSE IF all_topics_catches(t.exc)
      THEN Returned(all_topics_error(t.exc), aw.calls)
      ELSE Propagated(t.exc, aw.calls)

\* ----------------------------------------------------------------- state
VARIABLES
  subclasses,      \* AlloraAction.__subclasses__()
  heap,            \* every action instance constructed so far
  ALLORA_ACTIONS,  \* the module-level list (instance identities)
  queries,         \* calls of get_all_allora_actions() after import
  lastQuery,       \* what the latest such call returned
  invoked,         \* handler invocations, in order
  calls,           \* calls received by the client, in order
  last,            \* the latest handler invocation and its outcome
  input            \* the latest GetPricePredictionInput construction

vars == <<subclasses, heap, ALLORA_ACTIONS, queries, lastQuery, invoked,
          calls, last, input>>

NoClient == [kind |-> "-", exc |-> NoExc, prediction |-> None,
             topics |-> <<>>]
NoInvocation ==
  [handler |-> "-", token |-> "", timeframe |-> "", client |-> NoClient,
   out |-> Returned("", <<>>)]

\* the state once the package is imported with the given subclasses known
InitWith(subs) ==
  LET r == get_all_allora_actions(subs, <<>>)
  IN  /\ subclasses = subs
      /\ heap = r.heap
      /\ ALLORA_ACTIONS = r.actions
      /\ queries = 0
      /\ lastQuery = <<>>
      /\ invoked = <<>>
      /\ calls = <<>>
      /\ last = NoInvocation
      /\ input = [constructed |-> FALSE, kw |-> <<>>, result |-> NoInput]

Init == InitWith(ImportedSubclasses)

\* a further call of get_all_allora_actions()
QueryRegistry ==
  /\ queries < MaxQueries
  /\ LET r == get_all_allora_actions(subclasses, heap)
     IN  /\ heap' = r.heap
         /\ lastQuery' = r.actions
  /\ queries' = queries + 1
  /\ UNCHANGED <<subclasses, ALLORA_ACTIONS, invoked, calls, last, input>>

InvokeGetPricePrediction ==
  /\ Len(invoked) < MaxInvocations
  /\ \E token \in Tokens, timeframe \in Timeframes,
        client \in PredictionOutcomes :
       LET out == get_price_prediction(client, token, timeframe)
       IN  /\ invoked' = Append(invoked,
                ClientCall("get_price_prediction", token, timeframe))
           /\ calls' = calls \o out.calls
           /\ last' = [handler |-> "get_price_prediction",
                       token |-> token, timeframe |-> timeframe,
                       client |-> client, out |-> out]
  /\ UNCHANGED <<subclasses, heap, ALLORA_ACTIONS, queries, lastQuery, input>>

InvokeGetAllTopics ==
  /\ Len(invoked) < MaxInvocations
  /\ \E client \in TopicsOutcomes :
       LET out == get_all_topics(client)
       IN  /\ invoked' = Append(invoked, ClientCall("get_all_topics", "", ""))
           /\ calls' = calls \o out.calls
           /\ last' = [handler |-> "get_all_topics",
                       token |-> "", timeframe |-> "",
                       client |-> client, out |-> out]
  /\ UNCHANGED <<subclasses, heap, ALLORA_ACTIONS, queries, lastQuery, input>>

ConstructInput ==
  /\ \E kw \in KwargsSet :
       input' = [constructed |-> TRUE, kw |-> kw,
                 result |-> GetPricePredictionInput(kw)]
  /\ UNCHANGED <<subclasses, heap, ALLORA_ACTIONS, queries, lastQuery,
                 invoked, calls, last>>

Next ==
  \/ QueryRegistry
  \/ InvokeGetPricePrediction
  \/ InvokeGetAllTopics
  \/ ConstructInput

Spec == Init /\ [][Next]_vars

\* ------------------------------------------------------------ decoding
\* A reader of JSON text, used to state what a rendering denotes: arrays
\* of objects whose members are integers or strings.
Ch(s, i) == IF i >= 1 /\ i <= Len(s) THEN SubSeq(s, i, i) ELSE ""

Digits == <<"0", "1", "2", "3", "4", "5", "6", "7", "8", "9">>
IsDigit(c) == \E d \in 1..10 : Digits[d] = c
DigitValue(c) == (CHOOSE d \in 1..10 : Digits[d] = c) - 1

Bad == [ok |-> FALSE, val |-> <<>>, next |-> 0]
Good(v, n) == [ok |-> TRUE, val |-> v, next |-> n]

RECURSIVE skip_ws(_, _)
skip_ws(s, i) ==
  IF Ch(s, i) \in {" ", "\n"} THEN skip_ws(s, i + 1) ELSE i

\* i is the position after the opening quote
RECURSIVE read_string(_, _, _)
read_string(s, i, acc) ==
  LET c == Ch(s, i)
  IN  IF c = "" THEN Bad
      ELSE IF c = "\"" THEN Good(StrVal(acc), i + 1)
      ELSE IF c = "\\"
      THEN LET e == Ch(s, i + 1)
           IN  IF e = "n" THEN read_string(s, i + 2, acc \o "\n")
               ELSE IF e \in {"\"", "\\"}
               THEN read_string(s, i + 2, acc \o e)
               ELSE Bad
      ELSE read_string(s, i + 1, acc \o c)

RECURSIVE read_int(_, _, _)
read_int(s, i, acc) ==
  IF IsDigit(Ch(s, i))
  THEN read_int(s, i + 1, 10 * acc + DigitValue(Ch(s, i)))
  ELSE Good(IntVal(acc), i)

read_scalar(s, i) ==
  IF Ch(s, i) = "\"" THEN read_string(s, i + 1, "")
  ELSE IF IsDigit(Ch(s, i)) THEN read_int(s, i, 0)
  ELSE Bad

\* members of an object, i at the first key; acc the <<key, value>> pairs
RECURSIVE read_members(_, _, _)
read_members(s, i, acc) ==
  IF Ch(s, i) # "\"" THEN Bad
  ELSE LET k == read_string(s, i + 1, "")
       IN  IF ~k.ok THEN Bad
           ELSE LET c == skip_ws(s, k.next)
                IN  IF Ch(s, c) # ":" THEN Bad
                    ELSE LET v == read_scalar(s, skip_ws(s, c + 1))
                         IN  IF ~v.ok THEN Bad
                             ELSE LET n == skip_ws(s, v.next)
                                      a == Append(acc, <<k.val.s, v.val>>)
                                  IN  IF Ch(s, n) = "}" THEN Good(a, n + 1)
                                      ELSE IF Ch(s, n) = ","
                                      THEN read_members(s,
                                             skip_ws(s, n + 1), a)
                                      ELSE Bad

\* the dict an object denotes, when its members are topic_id, topic_name
AsTopic(members) ==
  IF /\ Len(members) = 2
     /\ members[1][1] = "topic_id" /\ members[1][2].type = "int"
     /\ members[2][1] = "topic_name" /\ members[2][2].type = "str"
  THEN Topic("dict", members[1][2].n, members[2][2].s)
  ELSE Topic("?", 0, "")

read_object(s, i) ==
  IF Ch(s, i) # "{" THEN Bad
  ELSE LET j == skip_ws(s, i + 1)
       IN  IF Ch(s, j) = "}" THEN Good(AsTopic(<<>>), j + 1)
           ELSE LET m == read_members(s, j, <<>>)
                IN  IF m.ok THEN Good(AsTopic(m.val), m.next) ELSE Bad

RECURSIVE read_elements(_, _, _)
read_elements(s, i, acc) ==
  LET o == read_object(s, i)
  IN  IF ~o.ok THEN Bad
      ELSE LET n == skip_ws(s, o.next)
               a == Append(acc, o.val)
           IN  IF Ch(s, n) = "]" THEN Good(a, n + 1)
               ELSE IF Ch(s, n) = ","
               THEN read_elements(s, skip_ws(s, n + 1), a)
               ELSE Bad

\* the list a JSON text denotes; the whole text must be consumed
json_loads(s) ==
  LET i == skip_ws(s, 1)
  IN  IF Ch(s, i) # "[" THEN Bad
      ELSE LET j == skip_ws(s, i + 1)
               r == IF Ch(s, j) = "]" THEN Good(<<>>, j + 1)
                    ELSE read_elements(s, j, <<>>)
           IN  IF r.ok /\ skip_ws(s, r.next) = Len(s) + 1 THEN r ELSE Bad

StartsWith(s, p) == Len(s) >= Len(p) /\ SubSeq(s, 1, Len(p)) = p
After(s, p) == SubSeq(s, Len(p) + 1, Len(s))

\* --------------------------------------------- the registry on any input
\* get_all_allora_actions() over every way the two implementations can be
\* known to AlloraAction.__subclasses__(), none of them included.
SubclassLists ==
  {<<>>, <<"GetAllTopicsAction">>, <<"GetPricePredictionAction">>,
   <<"GetAllTopicsAction", "GetPricePredictionAction">>,
   <<"GetPricePredictionAction", "GetAllTopicsAction">>}

InitRegistry == \E subs \in SubclassLists : InitWith(subs)

\* the host's use of the registry: queries and handler invocations
NextRegistry ==
  \/ QueryRegistry
  \/ InvokeGetPricePrediction
  \/ InvokeGetAllTopics

SpecRegistry == InitRegistry /\ [][NextRegistry]_vars

\* ---------------------------------------------------------------- claims
IsPrice == last.handler = "get_price_prediction"
IsTopics == last.handler = "get_all_topics"
ClientRaisedError ==
  last.client.kind = "raise" /\ last.client.exc.cls \in ErrorClasses
HasNormalized(pp) ==
  /\ "inference_data" \in DOMAIN pp
  /\ "network_inference_normalized" \in DOMAIN pp.inference_data
AllSerializable(ts) == \A i \in 1..Len(ts) : ts[i].type = "dict"
TopicsHeader == "The available topics at Allora Network are:"
PriceHeader == "The future price prediction for "

\* C1: whenever the client's price-prediction call raised an error (an
\* exception deriving from Exception), get_price_prediction returned, to
\* its caller, "Error getting price prediction: " followed by the error's
\* message, and propagated nothing.
C1_PriceErrorIsReturnedAsString ==
  (IsPrice /\ ClientRaisedError) =>
    /\ last.out.status = "returned"
    /\ last.out.value
         = "Error getting price prediction: " \o last.client.exc.msg

C1_Witness ==
  /\ IsPrice
  /\ last.client.kind = "raise"
  /\ last.client.exc = Exc("Exception", "API error")
  /\ last.out.status = "returned"
  /\ last.out.value = "Error getting price prediction: API error"

\* C2: whenever the client returned a prediction whose normalized network
\* inference is v, get_price_prediction(client, t, f) returned exactly
\* "The future price prediction for {t} in {f} is {v}" with its own t, f.
C2_PriceSuccessString ==
  (IsPrice /\ last.client.kind = "return"
     /\ HasNormalized(last.client.prediction)) =>
    LET v == last.client.prediction.inference_data
                 .network_inference_normalized
        text == IF v.type = "str" THEN v.s ELSE ToString(v.n)
    IN  /\ last.out.status = "returned"
        /\ last.out.value
             = "The future price prediction for " \o last.token \o " in "
               \o last.timeframe \o " is " \o text

C2_Witness ==
  /\ IsPrice
  /\ last.token = "BTC" /\ last.timeframe = "5m"
  /\ last.client.prediction = Inference(StrVal("50000.00"))
  /\ last.out.value
       = "The future price prediction for BTC in 5m is 50000.00"

\* C3: every invocation of get_price_prediction made exactly one client
\* call, with the invocation's (token, timeframe), whether the call
\* succeeded or failed; so the price-prediction calls the client received
\* are, one for one and in order, the invocations made.
IsPriceCall(c) == c.op = "get_price_prediction"

C3_OneClientCallPerInvocation ==
  /\ SelectSeq(calls, IsPriceCall) = SelectSeq(invoked, IsPriceCall)
  /\ IsPrice =>
       last.out.calls
         = <<ClientCall("get_price_prediction", last.token, last.timeframe)>>

C3_Witness ==
  /\ Len(invoked) = 2
  /\ IsPriceCall(invoked[1])
  /\ invoked[2] = invoked[1]
  /\ last.client.kind = "raise"
  /\ calls = invoked

\* C4: whenever the client's all-topics call raised an error (an exception
\* deriving from Exception), get_all_topics returned "Error getting all
\* topics: " followed by the error's message and did not raise.
C4_TopicsErrorIsReturnedAsString ==
  (IsTopics /\ ClientRaisedError) =>
    /\ last.out.status = "returned"
    /\ last.out.value = "Error getting all topics: " \o last.client.exc.msg

C4_Witness ==
  /\ IsTopics
  /\ last.client.kind = "raise"
  /\ last.client.exc = Exc("ValueError", "boom")
  /\ last.out.status = "returned"
  /\ last.out.value = "Error getting all topics: boom"

C6_MissingFieldFailsValidation ==
  [][(input' # input /\ Fields \ DOMAIN input'.kw # {}) =>
       /\ input'.result.raised = "ValidationError"
       /\ input'.result.missing = Fields \ DOMAIN input'.kw
       /\ calls' = calls /\ invoked' = invoked /\ last' = last]_vars

C6_Witness ==
  /\ input.constructed
  /\ DOMAIN input.kw = {"timeframe"}
  /\ input.result.raised = "ValidationError"
  /\ Len(calls) = 1

\* C7: a construction of GetPricePredictionInput from two strings succeeds
\* and its token and timeframe fields equal the strings supplied.
C7_InputRoundTrip ==
  (input.constructed /\ DOMAIN input.kw = Fields) =>
    /\ input.result.raised = "-"
    /\ input.result.token = input.kw["token"]
    /\ input.result.timeframe = input.kw["timeframe"]

C7_Witness ==
  /\ input.constructed
  /\ DOMAIN input.kw = Fields
  /\ input.kw["token"] = " btc " /\ input.kw["timeframe"] = "5m"
  /\ input.result.token = " btc " /\ input.result.timeframe = "5m"

\* C8: what get_all_allora_actions() returns holds exactly one instance per
\* known implementation (none missing, none twice, nothing for the empty
\* set) and the names of the returned instances are pairwise distinct.
OnePerImplementation(r) ==
  /\ \A i \in 1..Len(r) : r[i] \in 1..Len(heap)
  /\ \A i \in 1..Len(r) :
       \E k \in 1..Len(subclasses) : heap[r[i]].cls = subclasses[k]
  /\ \A k \in 1..Len(subclasses) :
       Cardinality({i \in 1..Len(r) : heap[r[i]].cls = subclasses[k]}) = 1
  /\ \A i, j \in 1..Len(r) :
       i # j => r[i] # r[j] /\ heap[r[i]].name # heap[r[j]].name

C8_RegistryOneInstancePerImplementation ==
  /\ OnePerImplementation(ALLORA_ACTIONS)
  /\ queries > 0 => OnePerImplementation(lastQuery)

C8_Witness ==
  /\ queries > 0
  /\ Len(lastQuery) = 2
  /\ {heap[lastQuery[i]].name : i \in 1..2}
       = {"get_all_topics", "get_price_prediction"}

\* C9 as stated: no step changes ALLORA_ACTIONS, constructs an instance or
\* changes an instance.
C9_Original ==
  [][ALLORA_ACTIONS' = ALLORA_ACTIONS /\ heap' = heap]_vars

\* C9 amended: no step changes ALLORA_ACTIONS or any instance already
\* constructed; handler invocations and input constructions construct no
\* instance, and each call of get_all_allora_actions() constructs one new
\* instance per implementation.
C9_RegisteredActionsAreFrozen ==
  [][/\ ALLORA_ACTIONS' = ALLORA_ACTIONS
     /\ Len(heap') >= Len(heap)
     /\ SubSeq(heap', 1, Len(heap)) = heap
     /\ IF queries' # queries
        THEN Len(heap') = Len(heap) + Len(subclasses)
        ELSE heap' = heap]_vars

C9_Witness ==
  /\ queries = 1
  /\ Len(invoked) = 2
  /\ ALLORA_ACTIONS = <<1, 2>>
  /\ Len(heap) = 4
  /\ lastQuery = <<3, 4>>

\* C10: a failure after the client call has returned is converted too:
\* unserializable topics and a prediction without the normalized value
\* give the handler's error string, and a success-shaped string is
\* returned only when the client call and the formatting both succeeded.
C10_FormattingFailureIsReturnedAsString ==
  /\ (IsTopics /\ last.client.kind = "return"
        /\ ~AllSerializable(last.client.topics)) =>
       /\ last.out.status = "returned"
       /\ last.out.value
            = "Error getting all topics: Object of type AlloraTopic is not JSON serializable"
  /\ (IsPrice /\ last.client.kind = "return"
        /\ ~HasNormalized(last.client.prediction)) =>
       /\ last.out.status = "returned"
       /\ StartsWith(last.out.value,
            "Error getting price prediction: 'NoneType' object has no attribute ")
  /\ (IsTopics /\ StartsWith(last.out.value, TopicsHeader)) =>
       last.client.kind = "return" /\ AllSerializable(last.client.topics)
  /\ (IsPrice /\ StartsWith(last.out.value, PriceHeader)) =>
       last.client.kind = "return" /\ HasNormalized(last.client.prediction)

C10_Witness ==
  /\ IsTopics
  /\ last.client.kind = "return"
  /\ last.client.topics
       = <<Topic("dict", 1, "BTC 5min"), Topic("AlloraTopic", 1, "BTC 5min")>>
  /\ last.out.status = "returned"
  /\ StartsWith(last.out.value, "Error getting all topics: Object of type")

====
